---- MODULE Spec2Model ----
(***************************************************************************)
(* Battery telemetry logger (logger.py) and health analytics               *)
(* (analytics.py, dashboard.py load_data).                                 *)
(*                                                                         *)
(* Numbers are fixed point.  A sysfs node holds an integer in micro-units; *)
(* read_sysfs(node, 1e6) is kept in thousandths (mV, mA, mW, mWh), the     *)
(* product volts*amps in millionths (uW), round(x, 2) in hundredths,       *)
(* round(x, 3) in thousandths and round(x, 1) in tenths.  The node domains *)
(* below hold whole milli-units and no value whose decimal tie is not      *)
(* exactly representable in binary, so the fixed-point value is the value  *)
(* the float computation yields.                                           *)
(***************************************************************************)
EXTENDS Integers, Sequences, FiniteSets, TLC

\* Number of capture_telemetry calls explored over all processes.
MaxSamples == 3

\* logger.py:126 and logger.py:129, the two sleep intervals.
HighRes == 2
Economy == 10
\* logger.py:125, the power threshold, in hundredths of a watt.
PowerThresholdCw == 1500

\* logger.py:22-26
fields == << "timestamp", "pct", "status", "voltage_v", "current_a",
             "power_w", "temp_c", "energy_wh", "energy_full_wh",
             "energy_design_wh", "cycles", "charge_rate_w" >>

NumFields == Len(fields)

Abs(x) == IF x < 0 THEN -x ELSE x

\* Python round(): the quotient n/d rounded to the nearest integer, ties to
\* the even one (d > 0).
RoundHalfEven(n, d) ==
    LET q == n \div d
        r == n - q * d
    IN  IF 2 * r < d THEN q
        ELSE IF 2 * r > d THEN q + 1
        ELSE IF q % 2 = 0 THEN q ELSE q + 1

\* Python int(): truncation toward zero of n/d (d > 0).
TruncDiv(n, d) == IF n >= 0 THEN n \div d ELSE -((-n) \div d)

(***************************************************************************)
(* The hardware: the content of one sysfs node is <<"ok", integer>>, or    *)
(* the node is missing, unreadable (permission) or holds unparsable text.  *)
(***************************************************************************)
Ok(v) == << "ok", v >>
Missing == << "missing", 0 >>
Denied == << "denied", 0 >>
Garbage == << "garbage", 0 >>
Failures == { Missing, Denied, Garbage }

NumericNodes == { "voltage_now", "current_now", "power_now", "capacity",
                  "energy_now", "energy_full", "charge_full",
                  "energy_full_design", "charge_full_design", "cycle_count" }
Nodes == NumericNodes \cup { "status", "temp" }

\* float(text) / scale, in thousandths.
ScaleToMilli(raw, scale) ==
    IF scale >= 1000 THEN raw \div (scale \div 1000) ELSE raw * (1000 \div scale)

\* logger.py _read_sysfs: 0.0 when the node does not exist, 0.0 on any
\* exception of the read or the parse.
read_sysfs(hw, node, scale) ==
    IF hw[node][1] = "missing" THEN 0
    ELSE IF hw[node][1] = "ok" THEN ScaleToMilli(hw[node][2], scale)
    ELSE 0

\* logger.py _read_val_fallback: first strictly positive candidate.
RECURSIVE read_val_fallback(_, _, _)
read_val_fallback(hw, nodes, scale) ==
    IF nodes = << >> THEN 0
    ELSE LET val == read_sysfs(hw, Head(nodes), scale)
         IN  IF val > 0 THEN val ELSE read_val_fallback(hw, Tail(nodes), scale)

\* logger.py:73, the divisor from micro-units to base units.
Micro == 1000000

None == "None"

\* A sample before any capture.
NoSample ==
    [ timestamp |-> 0, pct |-> 0, status |-> None, voltage_v |-> 0,
      current_a |-> 0, power_w |-> 0, temp_c |-> 0, energy_wh |-> 0,
      energy_full_wh |-> 0, energy_design_wh |-> 0, cycles |-> 0,
      charge_rate_w |-> 0 ]

\* logger.py:82-85.  temp_raw after scaling, in thousandths of a degree:
\* raw / 1000.0 when raw > 1000, raw / 10.0 otherwise; 0 without a source.
scale_temp(raw) == IF raw > 1000 THEN raw ELSE raw * 100

\* logger.py:101.  charge_rate_w in hundredths of a watt; va is volts * amps
\* in millionths.
charge_rate(status, va) ==
    IF status = "Charging" THEN RoundHalfEven(va, 10000)
    ELSE RoundHalfEven(-va, 10000)

\* logger.py:76-79.  power in millionths of a watt.
derive_power(power_mw, va) ==
    IF power_mw = 0 /\ va # 0 THEN va ELSE power_mw * 1000

\* logger.py capture_telemetry.  The thermal node and the status node are
\* read with read_text() outside any try: a failure there raises.
capture_telemetry(hw, zone, now) ==
    LET volts == read_sysfs(hw, "voltage_now", Micro)
        amps == read_sysfs(hw, "current_now", Micro)
        va == volts * amps
        power == derive_power(read_sysfs(hw, "power_now", Micro), va)
    IN  IF zone # None /\ hw["temp"][1] # "ok"
          THEN [ raised |-> "thermal", data |-> NoSample ]
        ELSE IF hw["status"][1] # "ok"
          THEN [ raised |-> "status", data |-> NoSample ]
        ELSE
          LET temp_raw == IF zone # None THEN scale_temp(hw["temp"][2]) ELSE 0
              status == hw["status"][2]
          IN  [ raised |-> None,
                data |->
                  [ timestamp |-> now,
                    pct |-> TruncDiv(read_sysfs(hw, "capacity", 1), 1000),
                    status |-> status,
                    voltage_v |-> volts,
                    current_a |-> amps,
                    power_w |-> RoundHalfEven(power, 10000),
                    temp_c |-> RoundHalfEven(temp_raw, 100),
                    energy_wh |-> read_sysfs(hw, "energy_now", Micro),
                    energy_full_wh |->
                      read_val_fallback(hw, << "energy_full", "charge_full" >>, Micro),
                    energy_design_wh |->
                      read_val_fallback(hw, << "energy_full_design",
                                               "charge_full_design" >>, Micro),
                    cycles |-> TruncDiv(read_sysfs(hw, "cycle_count", 1), 1000),
                    charge_rate_w |-> charge_rate(status, va) ] ]

\* logger.py _discover_thermal.  zones is the list of thermal zone type
\* labels as globbed, a label being Ok(text) or a failure; the keyword test
\* is the substring test of line 49 tabulated for the labels used here.
KeywordLabels == { "acpitz", "x86_pkg_temp", "bat0" }

RECURSIVE first_zone(_, _)
first_zone(zones, i) ==
    IF i > Len(zones) THEN None
    ELSE IF zones[i][1] = "ok" /\ zones[i][2] \in KeywordLabels THEN "zone"
    ELSE first_zone(zones, i + 1)

discover_thermal(bat_has_temp, zones) ==
    IF bat_has_temp THEN "bat" ELSE first_zone(zones, 1)

\* csv.DictWriter.writerow: the cells of one record in field order.
Row(d) == [ i \in 1..NumFields |-> d[fields[i]] ]

\* logger.py:120.  The record goes to the file object's buffer whole.
writerow(buffer, d) == Append(buffer, Row(d))

\* flush() left out: the buffered rows never reach the file.
flush_dropped(rows, buffer) == rows

\* The record written cell by cell with a flush in between: the first half
\* of the first buffered row reaches the file.
flush_cellwise(rows, buffer) ==
    IF buffer = << >> THEN rows
    ELSE rows \o << SubSeq(Head(buffer), 1, NumFields \div 2) >>

\* logger.py:121.  The buffered rows reach the file, in one write.
flush(rows, buffer) == rows \o buffer

\* The file left without close(): what is buffered is lost.
close_without_flush(rows, buffer) == rows

\* logger.py:115, the end of the with block: close() flushes what is buffered.
close_file(rows, buffer) == flush(rows, buffer)

\* The log opened with "w" without the existence test.
init_csv_truncating(state, rows) == << fields >>

\* logger.py _init_csv: the header is written only when no file exists.
init_csv(state, rows) == IF state = "absent" THEN << fields >> ELSE rows

\* logger.py:125: status changed, or more than 15 W drawn.
high_res(d, last) == d.status # last \/ Abs(d.power_w) > PowerThresholdCw
\* logger.py:126 and :129
next_interval(d, last) == IF high_res(d, last) THEN HighRes ELSE Economy
\* The remembered status never stored.
next_last_status_stale(d, last) == last

\* logger.py:127: last_status is stored in the high-res branch only.
next_last_status(d, last) == IF high_res(d, last) THEN d.status ELSE last

(***************************************************************************)
(* analytics.py and dashboard.py load_data.  A data frame is the header    *)
(* row (its columns) and the data rows.  A float that can be NaN or        *)
(* infinite is a pair: Num(v), NaN or Inf.                                 *)
(***************************************************************************)
Num(v) == << "num", v >>
NaN == << "nan", 0 >>
Inf == << "inf", 0 >>

EmptyFrame == [ columns |-> << >>, rows |-> << >> ]

\* pd.read_csv raises on a missing or unreadable file and on a file of
\* length zero (EmptyDataError); otherwise the first row names the columns.
csv_fails(state, rows) == state # "ok" \/ rows = << >>
read_csv(rows) == [ columns |-> Head(rows), rows |-> Tail(rows) ]

\* analytics.py BMSAnalytics.__init__: any exception gives an empty frame.
analytics_load(state, rows) ==
    IF csv_fails(state, rows) THEN EmptyFrame ELSE read_csv(rows)

RECURSIVE index_of(_, _, _)
index_of(cols, name, i) ==
    IF i > Len(cols) THEN 0
    ELSE IF cols[i] = name THEN i
    ELSE index_of(cols, name, i + 1)

\* frame[name].iloc[i - 1]
cell(frame, i, name) == frame.rows[i][index_of(frame.columns, name, 1)]

RECURSIVE sum_to(_, _, _)
\* f[lo] + ... + f[hi]
sum_to(f, lo, hi) == IF lo > hi THEN 0 ELSE f[hi] + sum_to(f, lo, hi - 1)

\* rolling(window = 3, min_periods = 1).mean() at row i, as << sum, count >>.
smooth(frame, i, name) ==
    LET lo == IF i > 2 THEN i - 2 ELSE 1
        col == [ j \in 1..Len(frame.rows) |-> cell(frame, j, name) ]
    IN  << sum_to(col, lo, i), i - lo + 1 >>

\* dashboard.py load_data: an absent or zero-length file and a frame without
\* rows come back as they are; otherwise the two smoothed columns are added
\* to the frame in memory.  A read_csv failure propagates to the caller's
\* except (lines 45, 132), which shows a message: no frame.
load_data(state, rows) ==
    IF state = "absent" \/ (state = "ok" /\ rows = << >>) THEN EmptyFrame
    ELSE IF csv_fails(state, rows) THEN EmptyFrame
    ELSE LET f == read_csv(rows)
         IN  IF f.rows = << >> THEN f
             ELSE [ columns |-> f.columns \o << "v_smooth", "p_smooth" >>,
                    rows |-> [ i \in 1..Len(f.rows) |->
                                 f.rows[i] \o << smooth(f, i, "voltage_v"),
                                                 smooth(f, i, "power_w") >> ] ]

\* analytics.py _empty_metrics
empty_metrics ==
    [ soh |-> Num(0), health_score |-> 0, discharge_rate |-> 0,
      stability_index |-> Num(0), cycle_count |-> 0,
      recommendations |-> << "Waiting for data..." >> ]

\* No report: analyze() has not returned one.
NoReport ==
    [ soh |-> Num(0), health_score |-> 0, discharge_rate |-> 0,
      stability_index |-> Num(0), cycle_count |-> 0, recommendations |-> << >> ]

RECURSIVE isqrt_between(_, _, _)
isqrt_between(n, lo, hi) ==
    IF lo >= hi THEN lo
    ELSE LET mid == (lo + hi + 1) \div 2
         IN  IF mid * mid <= n THEN isqrt_between(n, mid, hi)
             ELSE isqrt_between(n, lo, mid - 1)

\* floor of the square root
isqrt(n) == isqrt_between(n, 0, IF n < 46340 THEN n ELSE 46340)

\* analytics.py:23.  Sample standard deviation (ddof = 1) of voltage_v over
\* rows i-4..i, in hundredths of a millivolt, rounded down: to 0.01 mV when
\* the window spreads at most 400 mV, else from the voltages cut to 10 mV.
window_std(frame, i) ==
    LET base == cell(frame, i, "voltage_v")
        n == Len(frame.rows)
        d == [ j \in 1..n |-> cell(frame, j, "voltage_v") - base ]
        near == \A j \in (i - 4)..i : Abs(d[j]) <= 400
        e == [ j \in 1..n |-> IF near THEN d[j] ELSE TruncDiv(d[j], 10) ]
        e2 == [ j \in 1..n |-> e[j] * e[j] ]
        s1 == sum_to(e, i - 4, i)
        s2 == sum_to(e2, i - 4, i)
    IN  IF near THEN isqrt((5 * s2 - s1 * s1) * 500)
        ELSE 100 * isqrt((5 * s2 - s1 * s1) * 5)

\* analytics.py:23-24 and :51.  Stability Index in hundredths; the first four
\* windows are NaN and skipped by mean(); with no window the mean is NaN.
stability_index(frame) ==
    LET n == Len(frame.rows)
        stds == [ i \in 1..n |-> IF i < 5 THEN 0 ELSE window_std(frame, i) ]
    IN  IF n < 5 THEN NaN
        ELSE Num(10000 - RoundHalfEven(sum_to(stds, 5, n), 100 * (n - 4)))

\* analytics.py:19.  The frame holds numpy float64: x / 0 is inf, 0 / 0 is
\* NaN, neither raises.  A finite SoH is kept as the pair full, design.
soh_kind(full, design) ==
    IF design # 0 THEN "num" ELSE IF full = 0 THEN "nan" ELSE "inf"

\* analytics.py:48.  round(soh, 2) in hundredths of a percent.
soh_rounded(full, design) ==
    IF soh_kind(full, design) = "nan" THEN NaN
    ELSE IF soh_kind(full, design) = "inf" THEN Inf
    ELSE IF design > 0 THEN Num(RoundHalfEven(full * 10000, design))
    ELSE Num(RoundHalfEven(-full * 10000, -design))

\* analytics.py:28-30 and :49.  int(health_score), health_score being
\* soh * 0.6 + (20 - cycle_penalty) + (20 - temp_penalty) with a finite soh.
health_score(full, design, cycles, max_temp) ==
    LET temp_penalty == IF max_temp > 450 THEN 20 ELSE 0
        capped == IF cycles < 1000 THEN cycles ELSE 1000
        num == 3000 * full + design * (50 * (40 - temp_penalty) - capped)
        den == 50 * design
    IN  IF den > 0 THEN TruncDiv(num, den) ELSE TruncDiv(-num, -den)

\* analytics.py:34-39.  Least-squares slope of pct over the last 10 rows
\* against 0..m-1, as << numerator, denominator >>, denominator > 0.
slope(frame) ==
    LET n == Len(frame.rows)
        m == IF n < 10 THEN n ELSE 10
        y == [ k \in 1..m |-> cell(frame, n - m + k, "pct") ]
        x == [ k \in 1..m |-> k - 1 ]
        xy == [ k \in 1..m |-> (k - 1) * y[k] ]
        xx == [ k \in 1..m |-> (k - 1) * (k - 1) ]
        sx == sum_to(x, 1, m)
    IN  << m * sum_to(xy, 1, m) - sx * sum_to(y, 1, m),
           m * sum_to(xx, 1, m) - sx * sx >>

\* analytics.py:42-45
recommendations(latest_temp, full, design, sl) ==
    (IF latest_temp > 400
       THEN << "Critical: Thermal throttling advised. High temp reduces lifespan." >>
       ELSE << >>)
    \o (IF soh_kind(full, design) = "num"
           /\ ((design > 0 /\ full * 100 < 80 * design)
               \/ (design < 0 /\ full * 100 > 80 * design))
          THEN << "Battery reaching End-of-Life (SoH < 80%). Consider replacement." >>
          ELSE << >>)
    \o (IF 2 * sl[1] < -sl[2]
          THEN << "Rapid Discharge: Heavy background processes detected." >>
          ELSE << >>)

\* The degenerate test off by one.
too_few_wide(frame) == frame.rows = << >> \/ Len(frame.rows) <= 2

\* analytics.py:13.  An empty frame, or fewer than 2 rows.
too_few(frame) == frame.rows = << >> \/ Len(frame.rows) < 2

RECURSIVE max_of(_, _)
max_of(f, n) ==
    IF n = 1 THEN f[1]
    ELSE LET m == max_of(f, n - 1) IN IF f[n] > m THEN f[n] ELSE m

\* analytics.py analyze.  int() of a NaN health score raises ValueError, of
\* an infinite one OverflowError (line 49).
analyze(frame) ==
    IF too_few(frame)
      THEN [ raised |-> None, report |-> empty_metrics ]
    ELSE
      LET n == Len(frame.rows)
          full == cell(frame, n, "energy_full_wh")
          design == cell(frame, n, "energy_design_wh")
          cycles == cell(frame, n, "cycles")
          temps == [ i \in 1..n |-> cell(frame, i, "temp_c") ]
          sl == slope(frame)
      IN  IF soh_kind(full, design) = "nan"
            THEN [ raised |-> "ValueError", report |-> NoReport ]
          ELSE IF soh_kind(full, design) = "inf"
            THEN [ raised |-> "OverflowError", report |-> NoReport ]
          ELSE
            [ raised |-> None,
              report |->
                [ soh |-> soh_rounded(full, design),
                  health_score |-> health_score(full, design, cycles, max_of(temps, n)),
                  discharge_rate |-> RoundHalfEven(sl[1] * 1000, sl[2]),
                  stability_index |-> stability_index(frame),
                  cycle_count |-> cycles,
                  recommendations |->
                    recommendations(temps[n], full, design, sl) ] ]

(***************************************************************************)
(* The hardware readings explored.                                         *)
(***************************************************************************)
NoText(kind) == << kind, "" >>

\* A battery reporting energy_* nodes, 12 V, 45 Wh of 50 Wh, 36.5 degrees.
NominalHw(status, current_ua) ==
    [ voltage_now |-> Ok(12000000), current_now |-> Ok(current_ua),
      power_now |-> Missing, capacity |-> Ok(80),
      energy_now |-> Ok(40000000), energy_full |-> Ok(45000000),
      charge_full |-> Missing, energy_full_design |-> Ok(50000000),
      charge_full_design |-> Missing, cycle_count |-> Ok(120),
      status |-> Ok(status), temp |-> Ok(36500) ]

\* The same battery with one node failing.
BrokenHw(h, node, failure) ==
    [ h EXCEPT ![node] = IF node = "status" THEN NoText(failure[1]) ELSE failure ]

\* Every numeric node of the battery failing, one way or another.
DefaultedHw(status) ==
    [ voltage_now |-> Missing, current_now |-> Denied, power_now |-> Garbage,
      capacity |-> Missing, energy_now |-> Denied, energy_full |-> Garbage,
      charge_full |-> Missing, energy_full_design |-> Denied,
      charge_full_design |-> Garbage, cycle_count |-> Missing,
      status |-> Ok(status), temp |-> Ok(36500) ]

\* The readings the capture loop meets.
LoopHw ==
    { NominalHw(s, c) : s \in { "Charging", "Discharging" },
                        c \in { 500000, 2000000 } }
    \cup { DefaultedHw("Discharging"),
           BrokenHw(NominalHw("Discharging", 500000), "status", Missing),
           BrokenHw(NominalHw("Discharging", 500000), "temp", Garbage) }

\* The hosts the logger starts on: a battery with its own temp node, one
\* with a matching thermal zone behind a non-matching one, one with none.
Hosts ==
    { [ bat_has_temp |-> TRUE, zones |-> << >> ],
      [ bat_has_temp |-> FALSE, zones |-> << Ok("iwlwifi_1"), Ok("acpitz") >> ],
      [ bat_has_temp |-> FALSE, zones |-> << NoText("denied"), Ok("iwlwifi_1") >> ] }

LoopHosts ==
    { h \in Hosts : h.zones # << >> }

\* The readings and the host of the logger that readers run against.
ReaderHw ==
    { NominalHw("Discharging", 500000), NominalHw("Charging", 2000000),
      DefaultedHw("Discharging") }
ReaderHosts ==
    { h \in Hosts : h.bat_has_temp }

VARIABLES
    pc,            \* position of the logger process
    log_state,     \* "absent", "ok" or "unreadable": the log file
    disk,          \* the rows of the log file, each a tuple of cells
    buf,           \* rows written to the file object and not yet flushed
    data,          \* run(): the sample of this iteration
    last_status,   \* self.last_status
    sleep_time,    \* run(): sleep_time
    thermal_zone,  \* self.thermal_zone: None, "bat" or "zone"
    hw,            \* the sysfs nodes as last read
    clock,         \* datetime.now(), one tick per capture
    iter,          \* captures of the running process
    captured,      \* history: every sample handed to writerow, in order
    df,            \* the frame a reader holds
    loader,        \* who loaded df: "none", "analytics", "analyzed", "dashboard"
    result         \* what analyze() did

vars == << pc, log_state, disk, buf, data, last_status, sleep_time,
           thermal_zone, hw, clock, iter, captured, df, loader, result >>

logger_vars == << pc, log_state, disk, buf, data, last_status, sleep_time,
                  thermal_zone, hw, clock, iter, captured >>
reader_vars == << df, loader, result >>

Stopped == { "off", "no_battery", "returned", "raised", "killed" }
InRun == { "capture", "write", "flush", "decide", "sleep" }

Init ==
    /\ pc = "off"
    /\ log_state = "absent"
    /\ disk = << >>
    /\ buf = << >>
    /\ data = NoSample
    /\ last_status = None
    /\ sleep_time = 0
    /\ thermal_zone = None
    /\ hw = NominalHw("Discharging", 500000)
    /\ clock = 0
    /\ iter = 0
    /\ captured = << >>
    /\ df = EmptyFrame
    /\ loader = "none"
    /\ result = [ raised |-> None, report |-> NoReport ]

\* logger.py __init__ (and the process start of line 138): battery and
\* thermal discovery, last_status = None, _init_csv.
Start(bat_present, host) ==
    /\ pc \in Stopped
    /\ IF bat_present
         THEN /\ pc' = "constructed"
              /\ thermal_zone' = discover_thermal(host.bat_has_temp, host.zones)
              /\ last_status' = None
              /\ disk' = init_csv(log_state, disk)
              /\ log_state' = "ok"
         ELSE /\ pc' = "no_battery"
              /\ UNCHANGED << thermal_zone, last_status, disk, log_state >>
    /\ buf' = << >>
    /\ data' = NoSample
    /\ sleep_time' = 0
    /\ iter' = 0
    /\ UNCHANGED << hw, clock, captured >>
    /\ UNCHANGED reader_vars

\* logger.py:113-116: the log is opened for append.
RunOpen ==
    /\ pc = "constructed"
    /\ pc' = "capture"
    /\ buf' = << >>
    /\ UNCHANGED << log_state, disk, data, last_status, sleep_time,
                    thermal_zone, hw, clock, iter, captured >>
    /\ UNCHANGED reader_vars

\* logger.py:119.  An exception of capture_telemetry leaves the with block
\* (which closes the file) and run().
Capture(h) ==
    /\ pc = "capture"
    /\ clock < MaxSamples
    /\ hw' = h
    /\ clock' = clock + 1
    /\ LET r == capture_telemetry(h, thermal_zone, clock + 1)
       IN  IF r.raised = None
             THEN /\ data' = r.data
                  /\ pc' = "write"
                  /\ iter' = iter + 1
                  /\ UNCHANGED << disk, buf >>
             ELSE /\ pc' = "raised"
                  /\ disk' = close_file(disk, buf)
                  /\ buf' = << >>
                  /\ UNCHANGED << data, iter >>
    /\ UNCHANGED << log_state, last_status, sleep_time, thermal_zone, captured >>
    /\ UNCHANGED reader_vars

\* logger.py:120
WriteRow ==
    /\ pc = "write"
    /\ buf' = writerow(buf, data)
    /\ captured' = Append(captured, data)
    /\ pc' = "flush"
    /\ UNCHANGED << log_state, disk, data, last_status, sleep_time,
                    thermal_zone, hw, clock, iter >>
    /\ UNCHANGED reader_vars

\* logger.py:121
Flush ==
    /\ pc = "flush"
    /\ disk' = flush(disk, buf)
    /\ buf' = << >>
    /\ pc' = "decide"
    /\ UNCHANGED << log_state, data, last_status, sleep_time, thermal_zone,
                    hw, clock, iter, captured >>
    /\ UNCHANGED reader_vars

\* logger.py:125-131
Decide ==
    /\ pc = "decide"
    /\ sleep_time' = next_interval(data, last_status)
    /\ last_status' = next_last_status(data, last_status)
    /\ pc' = "sleep"
    /\ UNCHANGED << log_state, disk, buf, data, thermal_zone, hw, clock,
                    iter, captured >>
    /\ UNCHANGED reader_vars

\* logger.py:133: the sleep is over.
Wake ==
    /\ pc = "sleep"
    /\ pc' = "capture"
    /\ UNCHANGED << log_state, disk, buf, data, last_status, sleep_time,
                    thermal_zone, hw, clock, iter, captured >>
    /\ UNCHANGED reader_vars

\* logger.py:134-135: KeyboardInterrupt anywhere in the with block; the
\* block closes the file, run() logs and returns.
Interrupt ==
    /\ pc \in InRun
    /\ disk' = close_file(disk, buf)
    /\ buf' = << >>
    /\ pc' = "returned"
    /\ UNCHANGED << log_state, data, last_status, sleep_time, thermal_zone,
                    hw, clock, iter, captured >>
    /\ UNCHANGED reader_vars

\* The process is killed after the flush of line 121: nothing is closed.
Kill ==
    /\ pc \in { "decide", "sleep" }
    /\ pc' = "killed"
    /\ buf' = << >>
    /\ UNCHANGED << log_state, disk, data, last_status, sleep_time,
                    thermal_zone, hw, clock, iter, captured >>
    /\ UNCHANGED reader_vars

\* analytics.py:5-10
AnalyticsLoad ==
    /\ df' = analytics_load(log_state, disk)
    /\ loader' = "analytics"
    /\ result' = [ raised |-> None, report |-> NoReport ]
    /\ UNCHANGED logger_vars

\* dashboard.py:24-37
DashboardLoad ==
    /\ df' = load_data(log_state, disk)
    /\ loader' = "dashboard"
    /\ result' = [ raised |-> None, report |-> NoReport ]
    /\ UNCHANGED logger_vars

\* analytics.py:12-54
Analyze ==
    /\ loader = "analytics"
    /\ result' = analyze(df)
    /\ loader' = "analyzed"
    /\ UNCHANGED df
    /\ UNCHANGED logger_vars

\* The logger process on the given hosts, meeting the given readings.
Logger(hws, hosts) ==
    \/ \E b \in BOOLEAN, host \in hosts : Start(b, host)
    \/ RunOpen
    \/ \E h \in hws : Capture(h)
    \/ WriteRow
    \/ Flush
    \/ Decide
    \/ Wake
    \/ Interrupt
    \/ Kill

\* The readers of the log: processes of their own.
Readers ==
    \/ AnalyticsLoad
    \/ DashboardLoad
    \/ Analyze

\* The capture loop alone.
Next == Logger(LoopHw, LoopHosts)

Spec == Init /\ [][Next]_vars

\* The capture loop with readers loading the log at any moment.
ReaderNext == Logger(ReaderHw, ReaderHosts) \/ Readers

ReaderSpec == Init /\ [][ReaderNext]_vars

(***************************************************************************)
(* capture_telemetry over the readings a host can report.                  *)
(***************************************************************************)
CaptureHw ==
    { [ NominalHw(s, 0) EXCEPT !.current_now = c, !.voltage_now = v,
                               !.power_now = p, !.temp = t ] :
        s \in { "Charging", "Discharging", "Full", "Unknown" },
        c \in { Ok(-2000000), Ok(0), Ok(500000), Ok(2000000), Garbage },
        v \in { Ok(12000000), Missing },
        p \in { Missing, Ok(0), Ok(20000000), Ok(-20000000) },
        t \in { Ok(-5000), Ok(0), Ok(365), Ok(1000), Ok(1001), Ok(36250),
                Ok(36500), Ok(36540) } }
    \cup { BrokenHw(NominalHw("Discharging", 500000), n, f) :
             n \in Nodes, f \in Failures }
    \cup { [ NominalHw("Charging", 500000) EXCEPT !.energy_full = e,
                                                  !.charge_full = Ok(44000000),
                                                  !.charge_full_design = Ok(48000000),
                                                  !.energy_full_design = e ] :
             e \in { Ok(0), Missing } }
    \cup { DefaultedHw("Discharging") }

CaptureInit ==
    /\ pc = "capture"
    /\ log_state = "ok"
    /\ disk = << fields >>
    /\ buf = << >>
    /\ data = NoSample
    /\ last_status = None
    /\ sleep_time = 0
    /\ thermal_zone \in { discover_thermal(h.bat_has_temp, h.zones) : h \in Hosts }
    /\ hw \in CaptureHw
    /\ clock = 0
    /\ iter = 0
    /\ captured = << >>
    /\ df = EmptyFrame
    /\ loader = "none"
    /\ result = [ raised |-> None, report |-> NoReport ]

CaptureNext == Capture(hw)

CaptureSpec == CaptureInit /\ [][CaptureNext]_vars

(***************************************************************************)
(* analyze() over the stores a reader can meet.                            *)
(***************************************************************************)
\* Rows of a store explored.
MaxRows == 5

StoredSample(pct, temp, full, design, cycles, mv, ma) ==
    [ timestamp |-> 0, pct |-> pct, status |-> "Discharging",
      voltage_v |-> mv, current_a |-> ma,
      power_w |-> RoundHalfEven(mv * ma, 10000), temp_c |-> temp,
      energy_wh |-> (full * pct) \div 100, energy_full_wh |-> full,
      energy_design_wh |-> design, cycles |-> cycles,
      charge_rate_w |-> RoundHalfEven(-(mv * ma), 10000) ]

\* A healthy battery, a hot one, a worn one, one whose design capacity node
\* is unreadable, and the sample of a battery with every node unreadable.
AnalyzerSamples ==
    { StoredSample(80, 365, 45000, 50000, 120, 12000, 500),
      StoredSample(78, 460, 45000, 50000, 120, 11900, 2000),
      StoredSample(75, 410, 30000, 50000, 1200, 12100, 500),
      StoredSample(79, 365, 45000, 0, 120, 12000, 500),
      StoredSample(0, 365, 0, 0, 0, 0, 0) }

Stamped(f) == [ i \in DOMAIN f |-> [ f[i] EXCEPT !.timestamp = i ] ]
Rows(samples) == [ i \in 1..Len(samples) |-> Row(samples[i]) ]

AnalyzeInit ==
    /\ pc = "off"
    /\ buf = << >>
    /\ data = NoSample
    /\ last_status = None
    /\ sleep_time = 0
    /\ thermal_zone = None
    /\ hw = NominalHw("Discharging", 500000)
    /\ clock = 0
    /\ iter = 0
    /\ df = EmptyFrame
    /\ loader = "none"
    /\ result = [ raised |-> None, report |-> NoReport ]
    /\ \/ /\ log_state \in { "absent", "unreadable" }
          /\ disk = << >>
          /\ captured = << >>
       \/ /\ log_state = "ok"
          /\ disk = << >>
          /\ captured = << >>
       \/ /\ log_state = "ok"
          /\ \E n \in 0..MaxRows : \E f \in [ 1..n -> AnalyzerSamples ] :
               /\ captured = Stamped(f)
               /\ disk = << fields >> \o Rows(Stamped(f))

AnalyzeNext == Readers

AnalyzeSpec == AnalyzeInit /\ [][AnalyzeNext]_vars

(***************************************************************************)
(* Properties.                                                             *)
(***************************************************************************)
FieldSet == { fields[k] : k \in 1..NumFields }

\* The samples a frame holds, as records.
LoadedSamples(frame) ==
    [ i \in 1..Len(frame.rows) |-> [ f \in FieldSet |-> cell(frame, i, f) ] ]

\* The sample of the preceding iteration of this run, once the sample of
\* this iteration has been handed to writerow.
PrecedingSample == captured[Len(captured) - 1]

\* C1: in every iteration of run() after the first, the sleep interval is 2
\* when the status of the sample just captured differs from the status of
\* the preceding iteration's sample or |power_w| > 15 W, and 10 otherwise;
\* the remembered status is the status of the preceding iteration's sample
\* when the interval is computed, and of this sample afterwards.
C1_AdaptiveInterval ==
    /\ (pc = "decide" /\ iter >= 2) => last_status = PrecedingSample.status
    /\ (pc = "sleep" /\ iter >= 2) =>
          /\ sleep_time = IF data.status # PrecedingSample.status
                               \/ Abs(data.power_w) > 1500
                            THEN 2 ELSE 10
          /\ last_status = data.status

\* C1 witness: a second or later iteration sleeping in economy mode.
C1_Witness ==
    /\ pc = "sleep"
    /\ iter >= 2
    /\ sleep_time = 10
    /\ data.status = PrecedingSample.status

\* C2: whatever the starts, iterations, shutdowns and restarts, the log that
\* was absent at first is one header row followed by one record per sample
\* appended, in append order (the record of an append in progress still in
\* the file object), and loading it after the appends returns those samples.
C2_LogIsHeaderPlusAppends ==
    log_state = "ok" =>
      /\ disk \o buf = << fields >> \o Rows(captured)
      /\ buf = << >> =>
           LoadedSamples(analytics_load(log_state, disk)) = captured

\* C2 witness: a logger restarted on a log that holds two samples.
C2_Witness ==
    /\ pc = "constructed"
    /\ Len(captured) = 2
    /\ Len(disk) = 3

\* C3: whenever the loop sleeps, the file object holds nothing unflushed and
\* the log ends with the records of every sample this run captured, the one
\* of this iteration last.
C3_FlushedBeforeSleep ==
    pc = "sleep" =>
      /\ buf = << >>
      /\ iter >= 1
      /\ Len(disk) = Len(captured) + 1
      /\ disk[Len(disk)] = Row(data)
      /\ \A k \in 1..iter :
           disk[Len(disk) - iter + k] = Row(captured[Len(captured) - iter + k])

\* C3 witness: the loop sleeping after its second capture.
C3_Witness ==
    /\ pc = "sleep"
    /\ iter = 2
    /\ Len(disk) >= 3

\* C4: after a KeyboardInterrupt anywhere in run(), run() has returned, the
\* append that had started is complete and the log holds complete records
\* only: the header and one whole record per sample handed to writerow.
C4_CleanShutdown ==
    pc = "returned" =>
      /\ buf = << >>
      /\ disk = << fields >> \o Rows(captured)
      /\ \A i \in 1..Len(disk) : Len(disk[i]) = NumFields

\* C4 witness: run() returned from an interrupt that came after the first
\* writerow and before the sleep interval was computed.
C4_Witness ==
    /\ pc = "returned"
    /\ iter = 1
    /\ last_status = None
    /\ Len(captured) >= 1
    /\ disk[Len(disk)] = Row(data)

\* C5: a failure to read a sensor node during a capture never aborts the
\* capture loop: run() is never left by an exception of capture_telemetry.
C5_NodeFailureNeverAborts ==
    pc # "raised"

\* The cells of a loaded row that come from the log.
LogCells(row) == SubSeq(row, 1, NumFields)

ReaderSeesWholeRecords ==
    /\ Len(df.rows) <= Len(captured)
    /\ \A i \in 1..Len(df.rows) :
         /\ Len(df.rows[i]) >= NumFields
         /\ LogCells(df.rows[i]) = Row(captured[i])

\* C6: a load by the analyzer or the dashboard, at any interleaving with the
\* loop's write and flush, holds complete records only, which are a prefix
\* of the samples appended so far; and the load leaves the log as it was.
C6_ReadersSeeCompletePrefix ==
    /\ [] ReaderSeesWholeRecords
    /\ [][ (loader' # loader \/ df' # df) =>
             (disk' = disk /\ log_state' = log_state /\ buf' = buf) ]_vars

\* C6 witness: a reader holding the samples flushed so far while the record
\* of the next sample sits unflushed in the file object.
C6_Witness ==
    /\ pc = "flush"
    /\ buf # << >>
    /\ loader = "analytics"
    /\ Len(df.rows) >= 1
    /\ Len(df.rows) = Len(captured) - 1

\* The samples in the store: none when it is missing, unreadable or empty.
StoreSamples ==
    IF log_state = "ok" /\ disk # << >> THEN Len(disk) - 1 ELSE 0

Degenerate(r) ==
    /\ r.soh = Num(0)
    /\ r.health_score = 0
    /\ r.discharge_rate = 0
    /\ r.stability_index = Num(0)
    /\ r.cycle_count = 0
    /\ r.recommendations = << "Waiting for data..." >>

\* C7: analyze() on a store that is missing, unreadable, empty or holds fewer
\* than 2 samples returns the degenerate report and does not raise; on 2 or
\* more samples it never returns the degenerate report.
C7_DegenerateReport ==
    loader = "analyzed" =>
      IF StoreSamples < 2
        THEN result.raised = None /\ Degenerate(result.report)
        ELSE ~ (result.raised = None /\ Degenerate(result.report))

\* C7 witness: analyze() has run on a store that holds exactly one sample.
C7_Witness ==
    /\ loader = "analyzed"
    /\ log_state = "ok"
    /\ Len(disk) = 2
    /\ Degenerate(result.report)

\* C8: for at least 2 samples analyze() returns a report with SoH >= 0, and
\* when the latest design energy is 0 it returns SoH = 0 without raising.
C8_SohGuarded ==
    (loader = "analyzed" /\ StoreSamples >= 2) =>
      /\ result.raised = None
      /\ result.report.soh[1] = "num"
      /\ result.report.soh[2] >= 0
      /\ captured[Len(captured)].energy_design_wh = 0 =>
           result.report.soh = Num(0)

\* C9: in every sample, charge_rate_w is >= 0 when the status is Charging
\* and <= 0 for every other status, and its magnitude is that of power_w.
C9_ChargeRateSign ==
    pc = "write" =>
      /\ data.status = "Charging" => data.charge_rate_w >= 0
      /\ data.status # "Charging" => data.charge_rate_w <= 0
      /\ Abs(data.charge_rate_w) = Abs(data.power_w)

\* C10: temp_c is raw/1000 when the magnitude of the raw thermal value
\* exceeds 1000 and raw/10 otherwise, to the sample's one decimal; it is 0
\* when no thermal source was discovered.
C10_TemperatureScaling ==
    pc = "write" =>
      data.temp_c = IF thermal_zone = None THEN 0
                    ELSE IF Abs(hw["temp"][2]) > 1000
                      THEN RoundHalfEven(hw["temp"][2], 100)
                    ELSE hw["temp"][2]

====
